---- MODULE Spec2Model ----
(***************************************************************************)
(* Model of the query router of the MCP data analysis system               *)
(* (src/app.py: MCPClient, process_query_sync) and of the direct tool      *)
(* executor (src/client/direct_client.py: DirectClient.execute_tool), and   *)
(* of the reasoner client and its interactive loop                         *)
(* (src/client/ollama_client.py: OllamaClient.process_query, main), and of *)
(* the command line entry (src/client/cli_interface.py: run_cli).          *)
(* Texts are TLA+ strings; Python's str operations (lower, split, in,      *)
(* endswith, replace, join) are computed character by character.           *)
(***************************************************************************)
EXTENDS Integers, Sequences, FiniteSets, TLC

VARIABLES
    connected,  \* mcp_client.connected, the one field kept between queries
    importable, \* environment: "from server.server import mcp" succeeds
    dataDir,    \* environment: os.listdir("data") in listing order, or Unreadable
    phase,      \* "idle", or the operation whose outcome is held below
    request,    \* the arguments of the last operation
    calls,      \* the mcp_client.call_tool invocations of the last resolution
    outcome,    \* what the last operation returned or raised
    earlier,    \* what resolutions of the same request returned before, in order
    http,       \* the replies to the HTTP requests of the reasoner call
    sleeps,     \* the time.sleep(2) calls of the reasoner call
    written,    \* the chart paths saved by the resolutions held above, in order
    cli         \* run_cli: its position, its arguments and its local variable port

vars == <<connected, importable, dataDir, phase, request, calls, outcome,
          earlier, http, sleeps, written, cli>>

(***************************************************************************)
(* Bounds of the model.                                                    *)
(***************************************************************************)
MaxFragments == 2   \* query texts are made of at most this many fragments
MaxParams == 3      \* explicit parameter mappings have at most this many keys
MaxRetries == 3     \* an OllamaClient is made with at most this max_retries

(***************************************************************************)
(* Python values.                                                          *)
(***************************************************************************)
None == "<None>"                      \* None where a text may stand
PyNone == [t |-> "none"]              \* None where a mapping may stand
PyDict(m) == [t |-> "dict", d |-> m]
EmptyMap == [k \in {} |-> ""]
Unreadable == <<"<unreadable>">>      \* os.listdir("data") raises
Missing == <<"<missing>">>            \* the data directory does not exist

(***************************************************************************)
(* str operations.                                                         *)
(***************************************************************************)
ToLower ==
    ("A" :> "a") @@ ("B" :> "b") @@ ("C" :> "c") @@ ("D" :> "d") @@ ("E" :> "e") @@
    ("F" :> "f") @@ ("G" :> "g") @@ ("H" :> "h") @@ ("I" :> "i") @@ ("J" :> "j") @@
    ("K" :> "k") @@ ("L" :> "l") @@ ("M" :> "m") @@ ("N" :> "n") @@ ("O" :> "o") @@
    ("P" :> "p") @@ ("Q" :> "q") @@ ("R" :> "r") @@ ("S" :> "s") @@ ("T" :> "t") @@
    ("U" :> "u") @@ ("V" :> "v") @@ ("W" :> "w") @@ ("X" :> "x") @@ ("Y" :> "y") @@
    ("Z" :> "z")

CharAt(s, i) == SubSeq(s, i, i)

RECURSIVE LowerFrom(_, _)
LowerFrom(s, i) ==
    IF i > Len(s) THEN ""
    ELSE LET c == CharAt(s, i)
         IN (IF c \in DOMAIN ToLower THEN ToLower[c] ELSE c) \o LowerFrom(s, i + 1)

\* str.lower()
Lower(s) == LowerFrom(s, 1)

\* needle in hay
Contains(hay, needle) ==
    \E i \in 1..(Len(hay) - Len(needle) + 1) :
        SubSeq(hay, i, i + Len(needle) - 1) = needle

\* s.endswith(suffix)
EndsWith(s, suffix) ==
    /\ Len(s) >= Len(suffix)
    /\ SubSeq(s, Len(s) - Len(suffix) + 1, Len(s)) = suffix

\* s.startswith(prefix)
StartsWith(s, prefix) ==
    /\ Len(s) >= Len(prefix)
    /\ SubSeq(s, 1, Len(prefix)) = prefix

IsSpace(c) == c \in {" ", "\n", "\t"}

\* s.split(): the maximal runs of non-whitespace characters; cur is the run
\* being read
RECURSIVE SplitFrom(_, _, _)
SplitFrom(s, i, cur) ==
    IF i > Len(s) THEN (IF cur = "" THEN <<>> ELSE <<cur>>)
    ELSE IF IsSpace(CharAt(s, i))
         THEN (IF cur = "" THEN <<>> ELSE <<cur>>) \o SplitFrom(s, i + 1, "")
         ELSE SplitFrom(s, i + 1, cur \o CharAt(s, i))

Split(s) == SplitFrom(s, 1, "")

\* s.split(sep) for a one-character sep: empty pieces are kept
RECURSIVE SplitOnFrom(_, _, _, _)
SplitOnFrom(s, sep, i, cur) ==
    IF i > Len(s) THEN <<cur>>
    ELSE IF CharAt(s, i) = sep
         THEN <<cur>> \o SplitOnFrom(s, sep, i + 1, "")
         ELSE SplitOnFrom(s, sep, i + 1, cur \o CharAt(s, i))

SplitOn(s, sep) == SplitOnFrom(s, sep, 1, "")

\* s.replace(old, new), old not empty: left to right, non-overlapping
RECURSIVE ReplaceFrom(_, _, _, _)
ReplaceFrom(s, old, new, i) ==
    IF i > Len(s) THEN ""
    ELSE IF i + Len(old) - 1 <= Len(s) /\ SubSeq(s, i, i + Len(old) - 1) = old
         THEN new \o ReplaceFrom(s, old, new, i + Len(old))
         ELSE CharAt(s, i) \o ReplaceFrom(s, old, new, i + 1)

Replace(s, old, new) == ReplaceFrom(s, old, new, 1)

\* sep.join(items)
RECURSIVE Join(_, _)
Join(sep, items) ==
    IF items = <<>> THEN ""
    ELSE IF Len(items) = 1 THEN items[1]
    ELSE items[1] \o sep \o Join(sep, Tail(items))

\* [x for x in items if x.endswith('.csv')]
RECURSIVE CsvOnly(_)
CsvOnly(items) ==
    IF items = <<>> THEN <<>>
    ELSE (IF EndsWith(items[1], ".csv") THEN <<items[1]>> ELSE <<>>) \o CsvOnly(Tail(items))

Range(seq) == {seq[i] : i \in 1..Len(seq)}

(***************************************************************************)
(* The environment: the data and scripts directories.                      *)
(***************************************************************************)
\* the listings os.listdir("data") may give; entries that are no CSV file,
\* a file without content and both orders of two files occur
Listings ==
    { <<>>,
      <<"sales_data.csv", "list.csv">>,
      <<"list.csv", "notes.txt", "sales_old.csv", "sales_data.csv">> }

\* the files without any content: pandas.read_csv raises EmptyDataError, and
\* each tool returns the text of its "except Exception" clause
EmptyFiles == {"sales_old.csv"}
EmptyDataError == "No columns to parse from file"

\* the header and the first row of each file, as pandas reads them
Columns ==
    ("sales_data.csv" :> <<"month", "sales">>) @@
    ("list.csv" :> <<"name">>) @@
    ("notes.txt" :> <<"note">>)

FirstRow ==
    ("sales_data.csv" :> <<"Jan", "30">>) @@
    ("list.csv" :> <<"Ann">>) @@
    ("notes.txt" :> <<"hello">>)

\* the texts float() accepts, with their values
Numbers == ("30" :> 30) @@ ("25" :> 25)

\* os.path.exists(f"data/{name}")
FileExists(dir, name) == dir \notin {Unreadable, Missing} /\ name \in Range(dir)

\* the scripts directory, and the exit code of a script run with no further
\* arguments (bar_chart_generator.py's parser requires its column arguments)
Scripts == <<"bar_chart_generator.py", "data_analyzer.py">>
ScriptExit == ("bar_chart_generator.py" :> 2) @@ ("data_analyzer.py" :> 0)

\* str(list) of texts: ['a', 'b']
PyListText(items) ==
    "[" \o Join(", ", [i \in 1..Len(items) |-> "'" \o items[i] \o "'"]) \o "]"

(***************************************************************************)
(* json.dumps({"available_files": files}, indent=2) and json.loads.        *)
(***************************************************************************)
JsonDumpsFiles(files) ==
    IF files = <<>> THEN "{\n  \"available_files\": []\n}"
    ELSE "{\n  \"available_files\": [\n"
         \o Join(",\n", [i \in 1..Len(files) |-> "    \"" \o files[i] \o "\""])
         \o "\n  ]\n}"

\* the quoted texts of s from position i on; cur is the text being read when
\* inStr
RECURSIVE QuotedFrom(_, _, _, _)
QuotedFrom(s, i, inStr, cur) ==
    IF i > Len(s) THEN <<>>
    ELSE IF CharAt(s, i) = "\""
         THEN (IF inStr THEN <<cur>> ELSE <<>>) \o QuotedFrom(s, i + 1, ~inStr, "")
         ELSE QuotedFrom(s, i + 1, inStr, IF inStr THEN cur \o CharAt(s, i) ELSE "")

\* json.loads(text).get('available_files', []): a text that is no JSON
\* document raises JSONDecodeError (ok = FALSE); the first quoted text of an
\* object is its key
JsonLoadsFiles(text) ==
    IF ~(StartsWith(text, "{") /\ EndsWith(text, "}"))
    THEN [ok |-> FALSE, files |-> <<>>]
    ELSE LET quoted == QuotedFrom(text, 1, FALSE, "")
         IN IF quoted # <<>> /\ quoted[1] = "available_files"
            THEN [ok |-> TRUE, files |-> Tail(quoted)]
            ELSE [ok |-> TRUE, files |-> <<>>]

(***************************************************************************)
(* The tool implementations. Both clients define the same seven functions  *)
(* with the same signatures; they differ in list_data_files.               *)
(***************************************************************************)
\* the parameters of each tool function: those without and with a default
Signature ==
    ("read_csv" :> [required |-> {"filename"}, optional |-> {}]) @@
    ("list_data_files" :> [required |-> {}, optional |-> {}]) @@
    ("get_data_stats" :> [required |-> {"data_source"}, optional |-> {}]) @@
    ("generate_chart" :> [required |-> {"data_source"},
                          optional |-> {"chart_type", "title", "x_axis", "y_axis"}]) @@
    ("get_column_info" :> [required |-> {"data_source"}, optional |-> {"column"}]) @@
    ("filter_data" :> [required |-> {"data_source", "column", "value"},
                       optional |-> {"operation"}]) @@
    ("execute_script" :> [required |-> {"script_name", "csv_file"},
                          optional |-> {"args"}])

\* func(**params): the call binds when params is a mapping whose keys are
\* parameters of the function and include every one without a default
Binds(tool, params) ==
    /\ params.t = "dict"
    /\ DOMAIN params.d \subseteq (Signature[tool].required \cup Signature[tool].optional)
    /\ Signature[tool].required \subseteq DOMAIN params.d

\* str(e) of the TypeError func(**params) raises when it does not bind
TypeErrorText(func, tool, params) ==
    IF params.t # "dict"
    THEN func \o "() argument after ** must be a mapping, not NoneType"
    ELSE IF ~(DOMAIN params.d \subseteq
                (Signature[tool].required \cup Signature[tool].optional))
    THEN func \o "() got an unexpected keyword argument"
    ELSE func \o "() missing required positional argument"

\* params[key] or the parameter's default
Arg(params, key, default) ==
    IF key \in DOMAIN params.d THEN params.d[key] ELSE default

read_csv(dir, filename) ==
    IF ~FileExists(dir, filename)
    THEN "File " \o filename \o " not found in data directory"
    ELSE IF filename \in EmptyFiles
    THEN "Error reading CSV file: " \o EmptyDataError
    ELSE Join(" ", Columns[filename]) \o "\n" \o Join(" ", FirstRow[filename])

\* list_data_files_direct of MCPClient.call_tool
list_data_files_direct(dir) ==
    IF dir = Missing THEN JsonDumpsFiles(<<>>)
    ELSE IF dir = Unreadable
    THEN "Error listing files: [Errno 13] Permission denied: 'data'"
    ELSE JsonDumpsFiles(CsvOnly(dir))

\* list_data_files of DirectClient
list_data_files(dir) ==
    IF dir = Missing THEN "Data directory not found"
    ELSE IF dir = Unreadable
    THEN "Error listing files: [Errno 13] Permission denied: 'data'"
    ELSE JsonDumpsFiles(CsvOnly(dir))

get_data_stats(dir, data_source) ==
    IF ~FileExists(dir, data_source)
    THEN "Data file " \o data_source \o " not found in data directory"
    ELSE IF data_source \in EmptyFiles
    THEN "Error getting stats: " \o EmptyDataError
    ELSE "{\n  \"file_info\": {\n    \"filename\": \"" \o data_source
         \o "\"\n  },\n  \"columns\": " \o PyListText(Columns[data_source]) \o "\n}"

ChartTypes == {"bar", "line", "scatter", "pie"}

generate_chart(dir, now, data_source, chart_type, title, x_axis, y_axis) ==
    IF ~FileExists(dir, data_source)
    THEN "Data file " \o data_source \o " not found in data directory"
    ELSE IF data_source \in EmptyFiles
    THEN "Error generating chart: " \o EmptyDataError
    ELSE IF x_axis \notin Range(Columns[data_source])
    THEN "Column '" \o x_axis \o "' not found in data. Available columns: "
         \o PyListText(Columns[data_source])
    ELSE IF y_axis \notin Range(Columns[data_source]) /\ chart_type # "pie"
    THEN "Column '" \o y_axis \o "' not found in data. Available columns: "
         \o PyListText(Columns[data_source])
    ELSE IF chart_type \notin ChartTypes
    THEN "Unsupported chart type: " \o chart_type
         \o ". Supported types: bar, line, scatter, pie"
    ELSE "Chart saved as output/chart_" \o chart_type \o "_" \o now \o ".png"

get_column_info(dir, data_source, column) ==
    IF ~FileExists(dir, data_source)
    THEN "Data file " \o data_source \o " not found in data directory"
    ELSE IF data_source \in EmptyFiles
    THEN "Error getting column info: " \o EmptyDataError
    ELSE IF column # None /\ column # "" /\ column \notin Range(Columns[data_source])
    THEN "Column '" \o column \o "' not found in data. Available columns: "
         \o PyListText(Columns[data_source])
    ELSE "{\n  \"columns\": "
         \o PyListText(IF column # None /\ column # "" THEN <<column>>
                       ELSE Columns[data_source])
         \o "\n}"

\* the cell of the file's first row under the column
Cell(data_source, column) ==
    LET i == CHOOSE j \in 1..Len(Columns[data_source]) : Columns[data_source][j] = column
    IN FirstRow[data_source][i]

FilterOperations == {"equals", "contains", "greater", "less", "not_equals"}

\* whether the row passes the filter: a numeric column never equals a text
RowPasses(cell, value, operation) ==
    CASE operation = "equals" -> cell \notin DOMAIN Numbers /\ cell = value
      [] operation = "not_equals" -> cell \in DOMAIN Numbers \/ cell # value
      [] operation = "contains" -> Contains(Lower(cell), Lower(value))
      [] operation = "greater" -> cell \in DOMAIN Numbers /\ Numbers[cell] > Numbers[value]
      [] operation = "less" -> cell \in DOMAIN Numbers /\ Numbers[cell] < Numbers[value]

filter_data(dir, data_source, column, value, operation) ==
    IF ~FileExists(dir, data_source)
    THEN "Data file " \o data_source \o " not found in data directory"
    ELSE IF data_source \in EmptyFiles
    THEN "Error filtering data: " \o EmptyDataError
    ELSE IF column \notin Range(Columns[data_source])
    THEN "Column '" \o column \o "' not found in data. Available columns: "
         \o PyListText(Columns[data_source])
    ELSE IF operation \notin FilterOperations
    THEN "Unsupported operation: " \o operation
         \o ". Supported: equals, contains, greater, less, not_equals"
    ELSE IF operation \in {"greater", "less"} /\ value \notin DOMAIN Numbers
    THEN "Cannot perform '" \o operation
         \o "' operation on non-numeric data in column '" \o column \o "'"
    ELSE IF ~RowPasses(Cell(data_source, column), value, operation)
    THEN "No rows found matching the filter criteria"
    ELSE "{\n  \"filtered_count\": 1,\n  \"total_count\": 1,\n  \"percentage\": 100.0,\n  \"data\": \""
         \o Join(" ", Columns[data_source]) \o "\\n"
         \o Join(" ", FirstRow[data_source]) \o "\"\n}"

execute_script(dir, script_name, csv_file, args) ==
    IF script_name \notin Range(Scripts)
    THEN "Script " \o script_name \o " not found. Available scripts: "
         \o PyListText(Scripts)
    ELSE IF ~FileExists(dir, csv_file)
    THEN "CSV file " \o csv_file \o " not found in data directory"
    ELSE IF args = "" /\ ScriptExit[script_name] = 0
    THEN "Script executed successfully:\nAnalysis saved to: output/data_analysis.json"
    ELSE "Script execution failed:\nusage: " \o script_name

\* the tool function applied to bound parameters; direct tells MCPClient's
\* functions from DirectClient's
ToolBody(direct, tool, params, dir, now) ==
    CASE tool = "read_csv" -> read_csv(dir, params.d["filename"])
      [] tool = "list_data_files" ->
            IF direct THEN list_data_files(dir) ELSE list_data_files_direct(dir)
      [] tool = "get_data_stats" -> get_data_stats(dir, params.d["data_source"])
      [] tool = "generate_chart" ->
            generate_chart(dir, now, params.d["data_source"],
                           Arg(params, "chart_type", "bar"), Arg(params, "title", "Chart"),
                           Arg(params, "x_axis", "x"), Arg(params, "y_axis", "y"))
      [] tool = "get_column_info" ->
            get_column_info(dir, params.d["data_source"], Arg(params, "column", None))
      [] tool = "filter_data" ->
            filter_data(dir, params.d["data_source"], params.d["column"],
                        params.d["value"], Arg(params, "operation", "equals"))
      [] tool = "execute_script" ->
            execute_script(dir, params.d["script_name"], params.d["csv_file"],
                           Arg(params, "args", ""))

(***************************************************************************)
(* MCPClient.call_tool (src/app.py).                                       *)
(***************************************************************************)
\* what a call runs in: the client's connected flag, whether the server
\* module imports, the data directory and the time
Env(conn, imp, dir, now) == [conn |-> conn, imp |-> imp, dir |-> dir, now |-> now]

\* the keys of direct_functions, in order
direct_functions ==
    <<"read_csv", "list_data_files", "get_data_stats", "generate_chart",
      "get_column_info", "filter_data", "execute_script">>

\* what a call gives: a returned value or a raised exception's text; ran
\* tells whether a tool function's body was entered
Returned(v) == [raised |-> FALSE, value |-> v, ran |-> TRUE]
Raised(msg) == [raised |-> TRUE, value |-> msg, ran |-> FALSE]
Refused(msg) == [raised |-> FALSE, value |-> msg, ran |-> FALSE]

\* the RuntimeError raised for a name that is no key of direct_functions
ToolNotFoundText(tool_name) ==
    "Tool " \o tool_name \o " not found. Available tools: " \o PyListText(direct_functions)

\* the body of call_tool's try block and its "except Exception" clause,
\* once the client is connected
CallToolDispatch(env, tool_name, tool_args) ==
    IF tool_name \in Range(direct_functions)
    THEN IF Binds(tool_name, tool_args)
         THEN Returned(ToolBody(FALSE, tool_name, tool_args, env.dir, env.now))
         ELSE Raised("Error calling tool " \o tool_name \o ": "
                     \o TypeErrorText(tool_name \o "_direct", tool_name, tool_args))
    ELSE Raised("Error calling tool " \o tool_name \o ": " \o ToolNotFoundText(tool_name))

\* call_tool(tool_name, tool_args)
call_tool(env, tool_name, tool_args) ==
    IF ~env.conn /\ ~env.imp
    THEN Raised("Cannot connect to MCP server")
    ELSE CallToolDispatch(env, tool_name, tool_args)

\* mcp_client.connected after connect_to_server or call_tool
ConnectedAfter(conn, imp) == conn \/ imp

(***************************************************************************)
(* DirectClient.execute_tool (src/client/direct_client.py).                *)
(***************************************************************************)
\* the keys of self.available_tools after a successful _setup_tools
DirectTools ==
    <<"read_csv", "generate_chart", "get_data_stats", "filter_data",
      "get_column_info", "list_data_files", "execute_script">>

\* get_tool_info(tool_name): str() of the "parameters" and "example" entries
ToolInfo ==
    ("read_csv" :>
        [parameters |-> "{'filename': 'Name of the CSV file in the data directory'}",
         example |-> "{'filename': 'sample_data.csv'}"]) @@
    ("get_data_stats" :>
        [parameters |-> "{'data_source': 'Name of the CSV file in the data directory'}",
         example |-> "{'data_source': 'sample_data.csv'}"]) @@
    ("get_column_info" :>
        [parameters |-> "{'data_source': 'Name of the CSV file in the data directory', 'column': 'Specific column name (optional)'}",
         example |-> "{'data_source': 'sample_data.csv', 'column': 'age'}"]) @@
    ("filter_data" :>
        [parameters |-> "{'data_source': 'Name of the CSV file in the data directory', 'column': 'Column name to filter by', 'value': 'Value to filter for', 'operation': 'Filter operation (equals, contains, greater, less, not_equals)'}",
         example |-> "{'data_source': 'sample_data.csv', 'column': 'age', 'value': '25', 'operation': 'greater'}"]) @@
    ("generate_chart" :>
        [parameters |-> "{'data_source': 'Name of the CSV file in the data directory', 'chart_type': 'Type of chart (bar, line, scatter, pie)', 'title': 'Chart title', 'x_axis': 'Column name for x-axis', 'y_axis': 'Column name for y-axis'}",
         example |-> "{'data_source': 'sample_data.csv', 'chart_type': 'bar', 'title': 'Age Distribution', 'x_axis': 'name', 'y_axis': 'age'}"]) @@
    ("list_data_files" :> [parameters |-> "{}", example |-> "{}"]) @@
    ("execute_script" :>
        [parameters |-> "{'script_name': 'Script to execute (bar_chart_generator.py, pie_chart_generator.py, data_analyzer.py)', 'csv_file': 'CSV file to process', 'args': 'Additional arguments as string (optional)'}",
         example |-> "{'script_name': 'bar_chart_generator.py', 'csv_file': 'sales_data.csv', 'args': 'Product Sales'}"])

\* the text of execute_tool's "except TypeError" clause
ParameterErrorText(tool_name, params) ==
    "Parameter error for " \o tool_name \o ": "
    \o TypeErrorText(tool_name, tool_name, params)
    \o "\nExpected parameters: " \o ToolInfo[tool_name].parameters
    \o "\nExample: " \o ToolInfo[tool_name].example

\* the text returned for a name that is no key of self.available_tools
UnknownToolText(available_tools, tool_name) ==
    "Unknown tool: " \o tool_name \o ". Available tools: " \o Join(", ", available_tools)

\* execute_tool(tool_name, params) of a client whose self.available_tools
\* has the keys available_tools (none when _setup_tools failed)
execute_tool(available_tools, env, tool_name, params) ==
    IF available_tools = <<>>
    THEN Refused("Error: No tools available. Server functions could not be imported.")
    ELSE IF tool_name \notin Range(available_tools)
    THEN Refused(UnknownToolText(available_tools, tool_name))
    ELSE IF Binds(tool_name, params)
    THEN Returned(ToolBody(TRUE, tool_name, params, env.dir, env.now))
    ELSE Refused(ParameterErrorText(tool_name, params))

(***************************************************************************)
(* process_query_sync (src/app.py): the router.                            *)
(***************************************************************************)
\* the result dictionaries
Success(ai_response, tool_used, tool_parameters, tool_result) ==
    [success |-> TRUE, ai_response |-> ai_response, tool_used |-> tool_used,
     tool_parameters |-> tool_parameters, tool_result |-> tool_result]
Failure(error) == [success |-> FALSE, error |-> error]

\* one mcp_client.call_tool invocation, as logged in calls: the tool, the
\* arguments, whether it raised and the value returned (or the text raised)
Invocation(tool, args, c) ==
    [tool |-> tool, args |-> args, raised |-> c.raised, value |-> c.value]

\* the outcome of a stretch of the function: a value, or the text of an
\* exception on its way to the enclosing handler; calls are the invocations
\* made so far
Done(result, log) == [raised |-> FALSE, value |-> result, calls |-> log]
Thrown(msg, log) == [raised |-> TRUE, value |-> msg, calls |-> log]

\* the tool names the explicit branch passes on
ExplicitTools ==
    <<"read_csv", "get_data_stats", "generate_chart", "get_column_info",
      "filter_data", "list_data_files", "execute_script">>

\* the explicit branch after its call c: the inner "except Exception" clause
\* turns a raised call into a reply
ExplicitResult(tool_name, tool_params, c) ==
    IF c.raised
    THEN Done(Success("Error executing " \o tool_name \o ": " \o c.value, None, PyNone, None),
              <<Invocation(tool_name, tool_params, c)>>)
    ELSE Done(Success("Executed " \o tool_name \o " successfully.",
                      tool_name, tool_params, c.value),
              <<Invocation(tool_name, tool_params, c)>>)

\* if tool_name: ... (the direct tool execution branch)
ExplicitBranch(env, tool_name, tool_params) ==
    IF tool_name \in Range(ExplicitTools)
    THEN ExplicitResult(tool_name, tool_params, call_tool(env, tool_name, tool_params))
    ELSE Done(Success("Unknown tool: " \o tool_name, None, PyNone, None), <<>>)

\* os.listdir in the bare except clause of the file listing
FallbackListing(dir, log) ==
    IF dir = Missing THEN Done(<<>>, log)
    ELSE IF dir = Unreadable THEN Thrown("[Errno 13] Permission denied: 'data'", log)
    ELSE Done(CsvOnly(dir), log)

\* available_files after the listing call c and json.loads of its value
ListingResult(dir, c, loaded, log) ==
    IF c.raised THEN FallbackListing(dir, log)
    ELSE IF c.value = "" THEN Done(<<>>, log)
    ELSE IF loaded.ok THEN Done(loaded.files, log)
    ELSE FallbackListing(dir, log)

ListingParsed(dir, c) ==
    ListingResult(dir, c, JsonLoadsFiles(c.value),
                  <<Invocation("list_data_files", PyDict(EmptyMap), c)>>)

\* "Get available files using MCP client"
AvailableFiles(env) ==
    ListingParsed(env.dir, call_tool(env, "list_data_files", PyDict(EmptyMap)))

\* the first word that ends in .csv and is an available file, or None
RECURSIVE FirstToken(_, _)
FirstToken(words, available_files) ==
    IF words = <<>> THEN None
    ELSE IF EndsWith(words[1], ".csv") /\ words[1] \in Range(available_files)
    THEN words[1]
    ELSE FirstToken(Tail(words), available_files)

\* file.replace('_', ' ').replace('.csv', '').lower()
FileBase(file) == Lower(Replace(Replace(file, "_", " "), ".csv", ""))

\* file_base in query_lower or any(part in query_lower ...)
PatternHit(file_base, query_lower) ==
    \/ Contains(query_lower, file_base)
    \/ \E part \in Range(Split(file_base)) : Contains(query_lower, part)

\* the first available file whose name pattern occurs in the query, or None
RECURSIVE FirstPattern(_, _)
FirstPattern(files, query_lower) ==
    IF files = <<>> THEN None
    ELSE IF PatternHit(FileBase(files[1]), query_lower) THEN files[1]
    ELSE FirstPattern(Tail(files), query_lower)

\* a variant of ExactOrPattern that tries the name patterns first
PatternOrExact(exact, available_files, query_lower) ==
    IF FirstPattern(available_files, query_lower) # None
    THEN FirstPattern(available_files, query_lower)
    ELSE exact

\* if not detected_file: ... (the patterns are tried after the exact tokens)
ExactOrPattern(exact, available_files, query_lower) ==
    IF exact # None THEN exact ELSE FirstPattern(available_files, query_lower)

\* "Smart file detection": an exact token, else a name pattern
DetectFile(user_query, available_files) ==
    ExactOrPattern(FirstToken(Split(user_query), available_files), available_files,
                   Lower(user_query))

\* the keyword lists of the if/elif chain
ReadWords == {"read", "show", "display", "view", "content"}
ChartWords == {"chart", "graph", "plot", "visualiz"}
StatsWords == {"stats", "statistics", "analyze", "summary"}
ColumnWords == {"column", "field", "info"}
ListWords == {"list", "files", "available"}

\* any(word in query_lower for word in words)
AnyIn(words, query_lower) == \E word \in words : Contains(query_lower, word)

\* a variant of ChartType that looks for 'line' before 'pie'
ChartTypeLineFirst(query_lower) ==
    IF Contains(query_lower, "line") THEN "line"
    ELSE IF Contains(query_lower, "pie") THEN "pie"
    ELSE IF Contains(query_lower, "scatter") THEN "scatter"
    ELSE "bar"

\* chart_type: 'pie', 'line' or 'scatter' if in query_lower, else 'bar'
ChartType(query_lower) ==
    IF Contains(query_lower, "pie") THEN "pie"
    ELSE IF Contains(query_lower, "line") THEN "line"
    ELSE IF Contains(query_lower, "scatter") THEN "scatter"
    ELSE "bar"

\* chart_type.title()
TitleCase ==
    ("bar" :> "Bar") @@ ("pie" :> "Pie") @@ ("line" :> "Line") @@ ("scatter" :> "Scatter")

\* x_axis and y_axis from the header's columns
AxesOf(columns) ==
    IF columns = <<>> THEN [x_axis |-> "x", y_axis |-> "y"]
    ELSE [x_axis |-> columns[1],
          y_axis |-> IF Len(columns) > 1 THEN columns[2] ELSE columns[1]]

\* x_axis and y_axis after the read_csv call c of the chart branch; the bare
\* except clause gives 'x' and 'y'
ChartAxes(c) ==
    IF c.raised \/ c.value = "" THEN [x_axis |-> "x", y_axis |-> "y"]
    ELSE AxesOf(Split(SplitOn(c.value, "\n")[1]))

\* a variant of ToolResult that leaves the tool's output out of the reply
ToolResultDropped(log, tool, args, reported, ai_response, c) ==
    IF c.raised THEN Thrown(c.value, Append(log, Invocation(tool, args, c)))
    ELSE Done(Success(ai_response, tool, reported, None),
              Append(log, Invocation(tool, args, c)))

\* the reply of a branch after the call c of its tool
ToolResult(log, tool, args, reported, ai_response, c) ==
    IF c.raised THEN Thrown(c.value, Append(log, Invocation(tool, args, c)))
    ELSE Done(Success(ai_response, tool, reported, c.value),
              Append(log, Invocation(tool, args, c)))

\* the reply of a branch that found no file to work on
AskForFile(log, available_files, verb) ==
    Done(Success("Please specify which file to " \o verb \o ". Available files: "
                 \o Join(", ", available_files), None, PyNone, None), log)

\* a variant of CallBranch that invokes its tool twice
CallBranchTwice(env, log, tool, args, ai_response) ==
    ToolResult(Append(log, Invocation(tool, args, call_tool(env, tool, args))),
               tool, args, args, ai_response, call_tool(env, tool, args))

\* a branch that calls tool with args and reports them
CallBranch(env, log, tool, args, ai_response) ==
    ToolResult(log, tool, args, args, ai_response, call_tool(env, tool, args))

\* a variant of ReadBranch that never reads
ReadBranchAsks(env, log, available_files, detected_file) ==
    AskForFile(log, available_files, "read")

\* if any(word in query_lower for word in ['read', 'show', ...]): ...
ReadBranch(env, log, available_files, detected_file) ==
    IF detected_file # None
    THEN CallBranch(env, log, "read_csv", PyDict("filename" :> detected_file),
                    "Reading " \o detected_file \o " from the data directory.")
    ELSE AskForFile(log, available_files, "read")

\* the arguments generate_chart is called with
ChartArgs(detected_file, chart_type, axes) ==
    PyDict(("data_source" :> detected_file) @@ ("chart_type" :> chart_type) @@
           ("title" :> TitleCase[chart_type] \o " Chart") @@
           ("x_axis" :> axes.x_axis) @@ ("y_axis" :> axes.y_axis))

\* a variant of ChartCall that reports the time among the parameters
ChartCallStamped(env, log, detected_file, chart_type, c) ==
    ToolResult(Append(log, Invocation("read_csv", PyDict("filename" :> detected_file), c)),
               "generate_chart", ChartArgs(detected_file, chart_type, ChartAxes(c)),
               PyDict(("data_source" :> detected_file) @@ ("chart_type" :> chart_type) @@
                      ("timestamp" :> env.now)),
               "Creating a " \o chart_type \o " chart from " \o detected_file \o ".",
               call_tool(env, "generate_chart",
                         ChartArgs(detected_file, chart_type, ChartAxes(c))))

\* the chart branch after the read_csv call c
ChartCall(env, log, detected_file, chart_type, c) ==
    ToolResult(Append(log, Invocation("read_csv", PyDict("filename" :> detected_file), c)),
               "generate_chart", ChartArgs(detected_file, chart_type, ChartAxes(c)),
               PyDict(("data_source" :> detected_file) @@ ("chart_type" :> chart_type)),
               "Creating a " \o chart_type \o " chart from " \o detected_file \o ".",
               call_tool(env, "generate_chart",
                         ChartArgs(detected_file, chart_type, ChartAxes(c))))

ChartBranch(env, log, available_files, detected_file, query_lower) ==
    IF detected_file # None
    THEN ChartCall(env, log, detected_file, ChartType(query_lower),
                   call_tool(env, "read_csv", PyDict("filename" :> detected_file)))
    ELSE AskForFile(log, available_files, "chart")

StatsBranch(env, log, available_files, detected_file) ==
    IF detected_file # None
    THEN CallBranch(env, log, "get_data_stats", PyDict("data_source" :> detected_file),
                    "Getting comprehensive statistics for " \o detected_file \o ".")
    ELSE AskForFile(log, available_files, "analyze")

ColumnBranch(env, log, available_files, detected_file) ==
    IF detected_file # None
    THEN CallBranch(env, log, "get_column_info", PyDict("data_source" :> detected_file),
                    "Getting column information for " \o detected_file \o ".")
    ELSE AskForFile(log, available_files, "examine")

ListBranch(env, log) ==
    CallBranch(env, log, "list_data_files", PyDict(EmptyMap),
               "Here are all available CSV files in the data directory.")

\* a variant of DefaultBranch that answers without a tool
DefaultBranchNoTool(env, log, available_files) ==
    Done(Success("I can help you analyze CSV data. Available files: "
                 \o Join(", ", available_files), None, PyNone, None), log)

\* else: ... ("Default: show available files and capabilities")
DefaultBranch(env, log, available_files) ==
    CallBranch(env, log, "list_data_files", PyDict(EmptyMap),
               "I can help you analyze CSV data. Available files: "
               \o Join(", ", available_files)
               \o ". Try asking to 'read', 'chart', or 'analyze' a specific file.")

\* "Tool selection based on query intent": the if/elif chain
SelectTool(env, log, available_files, detected_file, query_lower) ==
    IF AnyIn(ReadWords, query_lower)
    THEN ReadBranch(env, log, available_files, detected_file)
    ELSE IF AnyIn(ChartWords, query_lower)
    THEN ChartBranch(env, log, available_files, detected_file, query_lower)
    ELSE IF AnyIn(StatsWords, query_lower)
    THEN StatsBranch(env, log, available_files, detected_file)
    ELSE IF AnyIn(ColumnWords, query_lower)
    THEN ColumnBranch(env, log, available_files, detected_file)
    ELSE IF AnyIn(ListWords, query_lower)
    THEN ListBranch(env, log)
    ELSE DefaultBranch(env, log, available_files)

\* the natural-language branch once the files are listed
AfterListing(env, user_query, listed) ==
    IF listed.raised THEN listed
    ELSE SelectTool(env, listed.calls, listed.value,
                    DetectFile(user_query, listed.value), Lower(user_query))

\* else: ... (the natural-language branch)
NaturalBranch(env, user_query) == AfterListing(env, user_query, AvailableFiles(env))

\* a variant of QueryBody that classifies the query text when there is one
QueryBodyTextFirst(env, user_query, tool_name, tool_params) ==
    IF tool_name # None /\ tool_name # "" /\ user_query = ""
    THEN ExplicitBranch(env, tool_name, tool_params)
    ELSE NaturalBranch(env, user_query)

\* the body of the function's try block
QueryBody(env, user_query, tool_name, tool_params) ==
    IF tool_name # None /\ tool_name # ""
    THEN ExplicitBranch(env, tool_name, tool_params)
    ELSE NaturalBranch(env, user_query)

\* a variant of OuterHandler that lets the exception through
OuterHandlerAbsent(body) == body

\* the function's "except Exception" clause: raised tells whether an
\* exception leaves the function
OuterHandler(body) ==
    IF body.raised
    THEN [raised |-> FALSE, value |-> Failure(body.value), calls |-> body.calls]
    ELSE body

\* a variant of process_query_sync for a client that does not connect on
\* demand: only a connection made before serves
process_query_syncNoConnect(env, user_query, tool_name, tool_params) ==
    OuterHandler(QueryBody(Env(env.conn, FALSE, env.dir, env.now),
                           user_query, tool_name, tool_params))

\* process_query_sync(user_query, tool_name, tool_params), which first
\* connects a client that is not connected
process_query_sync(env, user_query, tool_name, tool_params) ==
    OuterHandler(QueryBody(Env(ConnectedAfter(env.conn, env.imp), env.imp, env.dir, env.now),
                           user_query, tool_name, tool_params))

\* the files a resolution saved in the output directory: the path in the
\* text generate_chart returns after plt.savefig(filename)
ChartsSaved(r) ==
    IF /\ ~r.raised /\ r.value.success
       /\ r.value.tool_used = "generate_chart"
       /\ StartsWith(r.value.tool_result, "Chart saved as ")
    THEN <<SubSeq(r.value.tool_result, Len("Chart saved as ") + 1,
                  Len(r.value.tool_result))>>
    ELSE <<>>

(***************************************************************************)
(* OllamaClient.process_query (src/client/ollama_client.py): the reasoner. *)
(***************************************************************************)
\* the suggestion the client makes up itself
Suggestion(explanation) ==
    PyDict(("tool" :> None) @@ ("parameters" :> PyDict(EmptyMap)) @@
           ("explanation" :> explanation))

\* the texts json.loads accepts among the spans met, with their values
JsonDocuments ==
    ("{\"tool\": \"read_csv\", \"parameters\": {\"filename\": \"sales_data.csv\"}, \"explanation\": \"Reading the file\"}" :>
        PyDict(("tool" :> "read_csv") @@
               ("parameters" :> PyDict("filename" :> "sales_data.csv")) @@
               ("explanation" :> "Reading the file"))) @@
    ("{\"tool\": null, \"parameters\": {}, \"explanation\": \"Please name a file\"}" :>
        PyDict(("tool" :> None) @@ ("parameters" :> PyDict(EmptyMap)) @@
               ("explanation" :> "Please name a file"))) @@
    ("{\"tool\": \"drop_table\", \"parameters\": {}, \"explanation\": \"Dropping\"}" :>
        PyDict(("tool" :> "drop_table") @@ ("parameters" :> PyDict(EmptyMap)) @@
               ("explanation" :> "Dropping"))) @@
    ("{\"tool\": \"get_data_stats\", \"explanation\": \"Statistics\"}" :>
        PyDict(("tool" :> "get_data_stats") @@ ("explanation" :> "Statistics"))) @@
    ("{\"answer\": \"42\"}" :> PyDict("answer" :> "42"))

\* the message contents a reply may carry: JSON objects alone and inside
\* prose, prose without braces, braces that enclose no JSON, two objects
Contents ==
    DOMAIN JsonDocuments \cup
    { "Sure: {\"tool\": \"read_csv\", \"parameters\": {\"filename\": \"sales_data.csv\"}, \"explanation\": \"Reading the file\"} Done.",
      "I cannot help with that",
      "",
      "{\"tool\": read_csv}",
      "} nothing {",
      "{\"answer\": \"42\"} or {\"answer\": \"43\"}" }

\* what one requests.post may end in: an exception, or a response with a
\* status code and a body
Replies ==
    { [kind |-> "Timeout"], [kind |-> "ConnectionError"],
      [kind |-> "response", status |-> 500, body |-> "error"],
      [kind |-> "response", status |-> 200, body |-> "not json"],
      [kind |-> "response", status |-> 200, body |-> "no message"],
      [kind |-> "response", status |-> 200, body |-> "content is null"] } \cup
    { [kind |-> "response", status |-> 200, body |-> "content", content |-> c] :
        c \in Contents }

\* an exception of class cls on its way to the except clauses
Exc(cls, msg) == [raised |-> TRUE, cls |-> cls, value |-> msg]
\* a value handed to the return statement
Ret(v) == [raised |-> FALSE, cls |-> "", value |-> v]

\* content.find(ch) + 1 and content.rfind(ch) + 1: 0 when ch does not occur
Find(content, ch) ==
    IF \E i \in 1..Len(content) : CharAt(content, i) = ch
    THEN CHOOSE i \in 1..Len(content) :
            /\ CharAt(content, i) = ch
            /\ \A j \in 1..(i - 1) : CharAt(content, j) # ch
    ELSE 0
RFind(content, ch) ==
    IF \E i \in 1..Len(content) : CharAt(content, i) = ch
    THEN CHOOSE i \in 1..Len(content) :
            /\ CharAt(content, i) = ch
            /\ \A j \in (i + 1)..Len(content) : CharAt(content, j) # ch
    ELSE 0

\* a variant of LoadsOrRaw without the "except json.JSONDecodeError" clause
LoadsOrRaise(json_str, content) ==
    IF json_str \in DOMAIN JsonDocuments
    THEN Ret(JsonDocuments[json_str])
    ELSE Exc("JSONDecodeError", "Expecting value: line 1 column 1 (char 0)")

\* json.loads(json_str) and the "except json.JSONDecodeError" clause
LoadsOrRaw(json_str, content) ==
    IF json_str \in DOMAIN JsonDocuments
    THEN Ret(JsonDocuments[json_str])
    ELSE Ret(Suggestion(content))

\* "Try to extract JSON from response": the span from the first '{' to the
\* last '}' of the content
ExtractJson(content) ==
    IF Find(content, "{") # 0 /\ RFind(content, "}") # 0
    THEN LoadsOrRaw(SubSeq(content, Find(content, "{"), RFind(content, "}")), content)
    ELSE Ret(Suggestion(content))

\* response.json().get('message', {}).get('content', '') and what follows
\* it for a response with status 200
ReadReply(reply) ==
    IF reply.body = "not json"
    THEN Exc("JSONDecodeError", "Expecting value: line 1 column 1 (char 0)")
    ELSE IF reply.body = "content is null"
    THEN Exc("AttributeError", "'NoneType' object has no attribute 'find'")
    ELSE IF reply.body = "no message"
    THEN ExtractJson("")
    ELSE ExtractJson(reply.content)

\* the str() of a status code
StatusText == (500 :> "500") @@ (200 :> "200")

\* the try block of one attempt
TryRequest(reply) ==
    IF reply.kind # "response" THEN Exc(reply.kind, reply.kind)
    ELSE IF reply.status = 200 THEN ReadReply(reply)
    ELSE Ret(Suggestion("Ollama API error: " \o StatusText[reply.status]))

\* what an attempt ends in: done tells whether process_query is left, by a
\* return or (raised) by an exception; slept whether time.sleep(2) ran
Leave(v) == [done |-> TRUE, raised |-> FALSE, value |-> v, slept |-> FALSE]
Retry == [done |-> FALSE, raised |-> FALSE, value |-> None, slept |-> TRUE]
Escape(msg) == [done |-> TRUE, raised |-> TRUE, value |-> msg, slept |-> FALSE]

\* the str() of max_retries
RetriesText == [n \in 0..(MaxRetries + 1) |-> <<"0", "1", "2", "3", "4", "5">>[n + 1]]

\* a variant of OnTimeout that gives up at the first timeout
OnTimeoutGivesUp(attempt, max_retries) ==
    Leave(Suggestion("Request timed out after " \o RetriesText[max_retries]
                     \o " attempts. The model might be too large for your system."))

\* except requests.exceptions.Timeout
OnTimeout(attempt, max_retries) ==
    IF attempt < max_retries - 1 THEN Retry
    ELSE Leave(Suggestion("Request timed out after " \o RetriesText[max_retries]
                          \o " attempts. The model might be too large for your system."))

\* a variant of OnConnectionError that tries again
OnConnectionErrorRetries == Retry

\* except requests.exceptions.ConnectionError
OnConnectionError ==
    Leave(Suggestion("Cannot connect to Ollama. Please make sure it's running with 'ollama serve'"))

\* a variant of OnException that handles nothing
OnExceptionAbsent(tried, attempt, max_retries) == Escape(tried.value)

\* except Exception as e
OnException(tried, attempt, max_retries) ==
    IF attempt < max_retries - 1 THEN Retry
    ELSE Leave(Suggestion("Error processing query: " \o tried.value))

\* the except clauses, in their order, for what the try block ended in
Handle(tried, attempt, max_retries) ==
    IF ~tried.raised THEN Leave(tried.value)
    ELSE IF tried.cls = "Timeout" THEN OnTimeout(attempt, max_retries)
    ELSE IF tried.cls = "ConnectionError" THEN OnConnectionError
    ELSE OnException(tried, attempt, max_retries)

\* one pass of "for attempt in range(self.max_retries)" with the reply the
\* request gets
Attempt(reply, attempt, max_retries) == Handle(TryRequest(reply), attempt, max_retries)

(***************************************************************************)
(* main (src/client/ollama_client.py): what the loop does with the         *)
(* reasoner's answer.                                                      *)
(***************************************************************************)
\* if response and "tool" in response: if response["tool"]:
NamesTool(response) ==
    /\ response.t = "dict"
    /\ "tool" \in DOMAIN response.d
    /\ response.d["tool"] # None
    /\ response.d["tool"] # ""

\* direct_client.execute_tool(response["tool"], response["parameters"]); a
\* missing "parameters" key is a KeyError for the except clause
ExecuteSuggested(available_tools, env, response) ==
    IF "parameters" \in DOMAIN response.d
    THEN <<Invocation(response.d["tool"], response.d["parameters"],
                      execute_tool(available_tools, env, response.d["tool"],
                                   response.d["parameters"]))>>
    ELSE <<>>

\* the tool executions of one pass of the loop
Executions(available_tools, env, response) ==
    IF NamesTool(response) THEN ExecuteSuggested(available_tools, env, response)
    ELSE <<>>

(***************************************************************************)
(* The inputs.                                                             *)
(***************************************************************************)
\* the pieces query texts are made of: keywords of every family, in lower
\* and upper case, chart subtypes inside other words, file names and parts
\* of file names, the filter clause of the specification's example and a
\* tool name behind the sigil
Fragments ==
    { "Display", "chart", "plot the outline", "line or pie graph", "scatter plot",
      "stats", "sales info", "filter where age > 30", "sales_data.csv", "list.csv",
      "#list_data_files" }

RECURSIVE QueriesOf(_)
QueriesOf(n) ==
    IF n = 0 THEN {""}
    ELSE QueriesOf(n - 1) \cup
         { IF q = "" THEN f ELSE q \o " " \o f : q \in QueriesOf(n - 1), f \in Fragments }

Queries == QueriesOf(MaxFragments)

\* the tool names given explicitly: the catalog and a name outside it
ToolNames == Range(direct_functions) \cup {"drop_table"}

\* the values a parameter mapping gives each key
ParamOptions ==
    ("filename" :> {"sales_data.csv", "gone.csv"}) @@
    ("data_source" :> {"sales_data.csv"}) @@
    ("column" :> {"sales"}) @@
    ("value" :> {"25"}) @@
    ("bogus" :> {"1"})

\* the mappings of exactly n keys: a mapping of n - 1 keys and one more
RECURSIVE MapsOfSize(_)
MapsOfSize(n) ==
    IF n = 0 THEN {EmptyMap}
    ELSE UNION { UNION { { m @@ (k :> v) : v \in ParamOptions[k] } :
                         k \in DOMAIN ParamOptions \ DOMAIN m } :
                 m \in MapsOfSize(n - 1) }

\* the parameter values given explicitly: None and the mappings of at most
\* MaxParams keys
ParamValues ==
    {PyNone} \cup { PyDict(m) : m \in UNION { MapsOfSize(n) : n \in 0..MaxParams } }

\* datetime.now().strftime("%Y%m%d_%H%M%S") at the time of a call
Timestamps == {"20240101_120000"}

\* the same at the time of a later call
LaterTimestamps == {"20240101_120001"}

\* the queries sent along with an explicit tool name
ExplicitQueries == {"", "show sales_data.csv"}

\* the arguments of process_query_sync
Requests ==
    { [user_query |-> q, tool_name |-> None, tool_params |-> PyDict(EmptyMap)] :
        q \in Queries } \cup
    { [user_query |-> q, tool_name |-> n, tool_params |-> p] :
        q \in ExplicitQueries, n \in ToolNames \cup {""}, p \in ParamValues }

NoRequest == [user_query |-> "", tool_name |-> None, tool_params |-> PyNone]
NoOutcome == [raised |-> FALSE, value |-> None]

\* the queries typed into the interactive loop
TypedQueries == {"Display sales_data.csv"}

\* the queries resolved one after the other by the same process: the earlier
\* query and the later one
QueryPairs ==
    { <<"chart sales_data.csv", "Display sales_data.csv">>,
      <<"chart sales_data.csv", "stats">>,
      <<"Display list.csv", "chart sales_data.csv">>,
      <<"chart sales_data.csv", "sales_data.csv chart">>,
      <<"filter where age > 30", "sales info list.csv">> }

(***************************************************************************)
(* run_cli (src/client/cli_interface.py).                                  *)
(***************************************************************************)
\* the parsed arguments: whether --list-tools, --tool, --query and
\* --interactive are given
CliArgs == [list_tools : BOOLEAN, tool : BOOLEAN, query : BOOLEAN, interactive : BOOLEAN]

\* the local variable port before any assignment
Unbound == 0

\* the port Ollama is looked for at first, and the alternative ports
DefaultPort == 11434
AltPorts == {11435, 11436, 11437}

\* what check_ollama() and start_ollama() return: whether Ollama answers,
\* and the port, which is the default port when it does not
OllamaFound ==
    { [running |-> TRUE, port |-> p] : p \in {DefaultPort} \cup AltPorts } \cup
    { [running |-> FALSE, port |-> DefaultPort] }

\* where run_cli goes with its arguments
CliEntry(args) ==
    IF args.list_tools \/ args.tool THEN "returned"
    ELSE IF args.query \/ args.interactive THEN "checking"
    ELSE "starting"

\* the session run_cli starts: the single query, or the interactive loop
\* (main, or interactive_fallback when main is not imported)
SessionOf(args, imported) ==
    IF args.query THEN "query"
    ELSE IF imported THEN "interactive"
    ELSE "fallback"

NoCli ==
    [at |-> "off", port |-> Unbound, session |-> "none",
     args |-> [list_tools |-> FALSE, tool |-> FALSE, query |-> FALSE, interactive |-> FALSE]]

(***************************************************************************)
(* The state machine.                                                      *)
(***************************************************************************)
Init ==
    /\ connected = FALSE
    /\ importable \in BOOLEAN
    /\ dataDir \in Listings \cup {Unreadable, Missing}
    /\ phase = "idle"
    /\ request = NoRequest
    /\ calls = <<>>
    /\ outcome = NoOutcome
    /\ earlier = <<>>
    /\ http = <<>>
    /\ sleeps = 0
    /\ written = <<>>
    /\ cli = NoCli

\* get_mcp_info_sync: mcp_client.connect_to_server()
ConnectToServer ==
    /\ phase = "idle"
    /\ ~connected
    /\ connected' = ConnectedAfter(connected, importable)
    /\ UNCHANGED <<importable, dataDir, phase, request, calls, outcome, earlier, http, sleeps, written, cli>>

\* what a process_query_sync call that ended in r leaves behind
Resolution(r) ==
    /\ outcome' = [raised |-> r.raised, value |-> r.value]
    /\ calls' = r.calls
    /\ written' = written \o ChartsSaved(r)

\* process_query_sync(user_query, tool_name, tool_params), as chat() calls it
Resolve ==
    /\ phase = "idle"
    /\ \E req \in Requests, now \in Timestamps :
        /\ request' = req
        /\ Resolution(process_query_sync(Env(connected, importable, dataDir, now),
                                         req.user_query, req.tool_name, req.tool_params))
    /\ connected' = ConnectedAfter(connected, importable)
    /\ phase' = "resolved"
    /\ UNCHANGED <<importable, dataDir, earlier, http, sleeps, cli>>

\* process_query_sync called once more with the arguments of the resolution
\* before
ResolveAgain ==
    /\ phase = "resolved"
    /\ Len(earlier) = 0
    /\ \E now \in LaterTimestamps :
        Resolution(process_query_sync(Env(connected, importable, dataDir, now),
                                      request.user_query, request.tool_name,
                                      request.tool_params))
    /\ earlier' = Append(earlier, outcome)
    /\ connected' = ConnectedAfter(connected, importable)
    /\ UNCHANGED <<importable, dataDir, phase, request, http, sleeps, cli>>

\* process_query_sync called for the next query, after the resolution of
\* another one or along with it, within the same second or later
ResolveNext ==
    /\ phase = "resolved"
    /\ Len(earlier) = 0
    /\ DOMAIN request = DOMAIN NoRequest
    /\ request.tool_name = None
    /\ \E pair \in QueryPairs, now \in Timestamps \cup LaterTimestamps :
        /\ pair[1] = request.user_query
        /\ request' = [user_query |-> pair[2], tool_name |-> None,
                       tool_params |-> PyDict(EmptyMap), after |-> pair[1]]
        /\ Resolution(process_query_sync(Env(connected, importable, dataDir, now),
                                         pair[2], None, PyDict(EmptyMap)))
    /\ connected' = ConnectedAfter(connected, importable)
    /\ UNCHANGED <<importable, dataDir, phase, earlier, http, sleeps, cli>>

\* mcp_client.call_tool(tool_name, tool_args)
CallTool ==
    /\ phase = "idle"
    /\ \E n \in ToolNames, p \in ParamValues, now \in Timestamps :
        LET c == call_tool(Env(connected, importable, dataDir, now), n, p)
        IN /\ request' = [user_query |-> "", tool_name |-> n, tool_params |-> p]
           /\ outcome' = c
    /\ connected' = ConnectedAfter(connected, importable)
    /\ calls' = <<>>
    /\ phase' = "called"
    /\ UNCHANGED <<importable, dataDir, earlier, http, sleeps, written, cli>>

\* DirectClient().execute_tool(tool_name, params); the constructor's
\* _setup_tools may fail and leave no tools
DirectExecute ==
    /\ phase = "idle"
    /\ \E available_tools \in {DirectTools, <<>>}, n \in ToolNames, p \in ParamValues,
          now \in Timestamps :
        LET c == execute_tool(available_tools, Env(connected, importable, dataDir, now), n, p)
        IN /\ request' = [user_query |-> "", tool_name |-> n, tool_params |-> p,
                          available_tools |-> available_tools]
           /\ outcome' = c
    /\ calls' = <<>>
    /\ phase' = "executed"
    /\ UNCHANGED <<connected, importable, dataDir, earlier, http, sleeps, written, cli>>

\* main: ollama_client.process_query(user_input) is entered, for a client
\* made with max_retries
AskReasoner ==
    /\ phase = "idle"
    /\ \E q \in TypedQueries, n \in 0..MaxRetries :
        request' = [user_query |-> q, max_retries |-> n]
    /\ phase' = "asking"
    /\ UNCHANGED <<connected, importable, dataDir, calls, outcome, earlier, http, sleeps, written, cli>>

\* one pass of the loop of process_query: the request is sent and gets its
\* reply
ReasonerAttempt ==
    /\ phase = "asking"
    /\ Len(http) < request.max_retries
    /\ \E reply \in Replies :
        LET a == Attempt(reply, Len(http), request.max_retries)
        IN /\ http' = Append(http, reply)
           /\ sleeps' = IF a.slept THEN sleeps + 1 ELSE sleeps
           /\ phase' = IF a.done THEN "answered" ELSE "asking"
           /\ outcome' = IF a.done THEN [raised |-> a.raised, value |-> a.value]
                         ELSE outcome
    /\ UNCHANGED <<connected, importable, dataDir, request, calls, earlier, written, cli>>

\* the loop of process_query ends without a return: the function returns
\* None
ReasonerLoopEnds ==
    /\ phase = "asking"
    /\ Len(http) >= request.max_retries
    /\ phase' = "answered"
    /\ outcome' = [raised |-> FALSE, value |-> PyNone]
    /\ UNCHANGED <<connected, importable, dataDir, request, calls, earlier, http, sleeps, written, cli>>

\* main: the answer of process_query is acted on
MainDispatch ==
    /\ phase = "answered"
    /\ ~outcome.raised
    /\ \E available_tools \in {DirectTools, <<>>}, now \in Timestamps :
        calls' = Executions(available_tools, Env(connected, importable, dataDir, now),
                            outcome.value)
    /\ phase' = "dispatched"
    /\ UNCHANGED <<connected, importable, dataDir, request, outcome, earlier, http, sleeps, written, cli>>

\* run_cli() is entered with the parsed arguments: --list-tools and --tool
\* are served at once, --query and --interactive go on to check_ollama, no
\* argument at all goes straight to the start of the interactive session
RunCli ==
    /\ phase = "idle"
    /\ \E args \in CliArgs :
        cli' = [at |-> CliEntry(args), args |-> args, port |-> Unbound,
                session |-> "none"]
    /\ phase' = "cli"
    /\ UNCHANGED <<connected, importable, dataDir, request, calls, outcome, earlier, http, sleeps, written>>

\* ollama_running, port = check_ollama()
CheckOllama ==
    /\ phase = "cli"
    /\ cli.at = "checking"
    /\ \E found \in OllamaFound :
        cli' = [cli EXCEPT !.port = found.port,
                           !.at = IF found.running THEN "starting" ELSE "offering"]
    /\ UNCHANGED <<connected, importable, dataDir, phase, request, calls, outcome, earlier, http, sleeps, written>>

\* if not ollama_running: the user is asked whether to restart an Ollama
\* that is stuck and whether to start Ollama; success, port = start_ollama()
OfferStart ==
    /\ phase = "cli"
    /\ cli.at = "offering"
    /\ \E stuck \in BOOLEAN, restart \in BOOLEAN, start \in BOOLEAN, started \in OllamaFound :
        cli' = IF (stuck /\ ~restart) \/ ~start
               THEN [cli EXCEPT !.at = "returned"]
               ELSE [cli EXCEPT !.port = started.port,
                                !.at = IF started.running THEN "starting" ELSE "returned"]
    /\ UNCHANGED <<connected, importable, dataDir, phase, request, calls, outcome, earlier, http, sleeps, written>>

\* the reasoner session is started with the local variable port:
\* run_ollama_query(args.query, port, args.model), or main(port, args.model),
\* or interactive_fallback(port, args.model) when main cannot be imported;
\* reading a local variable that was never assigned raises UnboundLocalError
StartSession ==
    /\ phase = "cli"
    /\ cli.at = "starting"
    /\ \E imported \in BOOLEAN :
        cli' = IF cli.port = Unbound
               THEN [cli EXCEPT !.at = "crashed"]
               ELSE [cli EXCEPT !.at = "session",
                                !.session = SessionOf(cli.args, imported)]
    /\ UNCHANGED <<connected, importable, dataDir, phase, request, calls, outcome, earlier, http, sleeps, written>>

\* the result has been handed to the caller and is dropped
Discard ==
    /\ phase \notin {"idle", "asking"}
    /\ phase = "cli" => cli.at \in {"returned", "session", "crashed"}
    /\ phase' = "idle"
    /\ request' = NoRequest
    /\ outcome' = NoOutcome
    /\ calls' = <<>>
    /\ earlier' = <<>>
    /\ http' = <<>>
    /\ sleeps' = 0
    /\ written' = <<>>
    /\ cli' = NoCli
    /\ UNCHANGED <<connected, importable, dataDir>>

Next ==
    \/ ConnectToServer \/ Resolve \/ ResolveAgain \/ ResolveNext \/ CallTool
    \/ DirectExecute
    \/ AskReasoner \/ ReasonerAttempt \/ ReasonerLoopEnds \/ MainDispatch
    \/ RunCli \/ CheckOllama \/ OfferStart \/ StartSession
    \/ Discard

Spec == Init /\ [][Next]_vars

(***************************************************************************)
(* Properties.  A resolution is a finished process_query_sync call: phase  *)
(* is "resolved", request holds its arguments, calls its call_tool         *)
(* invocations in order and outcome what it returned or raised.            *)
(***************************************************************************)
Resolved == phase = "resolved"
Explicit == request.tool_name # None /\ request.tool_name # ""
Natural == ~Explicit
Result == outcome.value
Returns == ~outcome.raised
Succeeds == Returns /\ Result.success
UsesTool == Returns /\ Result.success /\ Result.tool_used # None
UsesNoTool == Returns /\ Result.success /\ Result.tool_used = None
LastCall == calls[Len(calls)]
QueryLower == Lower(request.user_query)

\* the files the listing step of the resolution found, and the file detected
\* in the query
Listed ==
    [conn \in BOOLEAN, imp \in BOOLEAN, dir \in Listings \cup {Unreadable, Missing} |->
        AvailableFiles(Env(conn, imp, dir, None))]
ListedFiles == Listed[connected, importable, dataDir]
Detected == DetectFile(request.user_query, ListedFiles.value)

C2_ExplicitFailureReported ==
    (Resolved /\ Explicit /\ Len(calls) = 1 /\ calls[1].raised) =>
        /\ Returns
        /\ ~Result.success
        /\ "error" \in DOMAIN Result

\* C3: process_query_sync returns and never raises, whatever the query, the
\* explicit tool name and parameters and whatever fails in the tool client;
\* the result has success = true with an explanation, tool_used,
\* tool_parameters and tool_result, or success = false with an error text.
C3_AlwaysWellFormedResult ==
    Resolved =>
        /\ Returns
        /\ \/ /\ Result.success = TRUE
              /\ DOMAIN Result = {"success", "ai_response", "tool_used",
                                  "tool_parameters", "tool_result"}
              /\ Result.ai_response # ""
           \/ /\ Result.success = FALSE
              /\ DOMAIN Result = {"success", "error"}
              /\ Result.error # ""

\* a resolution whose last invocation raised up to the outer handler
C3_FailureResolved ==
    /\ Resolved /\ Natural
    /\ Len(calls) > 1 /\ LastCall.raised
    /\ Returns /\ ~Result.success

\* an executor invocation: MCPClient.call_tool or DirectClient.execute_tool
Invoked == phase \in {"called", "executed"}
Catalog == IF phase = "called" THEN direct_functions ELSE request.available_tools
\* the executor has its tools: the server module was imported
Served == IF phase = "called" THEN connected ELSE Catalog # <<>>

\* C4 as stated: for a tool name outside the catalog the executor runs no
\* tool body and returns an unknown-tool failure that lists every catalog
\* name and is no parameter error.
C4_UnknownToolFailure ==
    (Invoked /\ Served /\ request.tool_name \notin Range(Catalog)) =>
        /\ ~outcome.raised
        /\ ~outcome.ran
        /\ \A n \in Range(Catalog) : Contains(outcome.value, n)
        /\ ~Contains(outcome.value, "Parameter error")

\* C5 as stated: an executor invocation returns a value and never raises,
\* for every tool name and every parameter mapping.
C5_ExecutorNeverRaises ==
    (Invoked /\ Served) => ~outcome.raised

\* C6 as stated: a known tool invoked with a parameter mapping that its
\* implementation rejects gives a parameter-mismatch failure containing the
\* tool's expected parameters and example, and the tool body is not run.
C6_ParameterMismatchReported ==
    (/\ Invoked /\ Served
     /\ request.tool_name \in Range(Catalog)
     /\ ~Binds(request.tool_name, request.tool_params)) =>
        /\ ~outcome.ran
        /\ ~outcome.raised
        /\ Contains(outcome.value, ToolInfo[request.tool_name].parameters)
        /\ Contains(outcome.value, ToolInfo[request.tool_name].example)

\* the families in their order of priority, with the tool of each
C7_Families ==
    << [words |-> ReadWords, tool |-> "read_csv"],
       [words |-> ChartWords, tool |-> "generate_chart"],
       [words |-> StatsWords, tool |-> "get_data_stats"],
       [words |-> ColumnWords, tool |-> "get_column_info"],
       [words |-> ListWords, tool |-> "list_data_files"],
       [words |-> {"filter", "search", "find", "where", "select"},
        tool |-> "filter_data"] >>

\* the families with a keyword in the query
C7_Hits(query_lower) ==
    { i \in DOMAIN C7_Families : AnyIn(C7_Families[i].words, query_lower) }

\* C7 as stated: without an explicit tool, the first family in the order
\* read > chart > stats > column > list > filter with a keyword in the
\* lowercased query decides, so a tool that is used is that family's tool.
C7_FirstFamilyDecides ==
    (Resolved /\ Natural /\ UsesTool /\ C7_Hits(QueryLower) # {}) =>
        \E i \in C7_Hits(QueryLower) :
            /\ \A j \in C7_Hits(QueryLower) : i <= j
            /\ Result.tool_used = C7_Families[i].tool

\* a read-family query whose listing step gave the available files
ReadQuery ==
    /\ Resolved /\ Natural
    /\ AnyIn(ReadWords, QueryLower)
    /\ ~ListedFiles.raised

\* C8: for a read-family query with a detected file the tool invoked is
\* read_csv with parameters exactly {filename: detected file}, and so says
\* the result; with no detected file no tool is invoked, tool_used and
\* tool_result are null and the explanation asks for the file to read.
C8_ReadFamily ==
    ReadQuery =>
        IF Detected # None
        THEN /\ Len(calls) = 2
             /\ calls[2].tool = "read_csv"
             /\ calls[2].args = PyDict("filename" :> Detected)
             /\ ~calls[2].raised =>
                 /\ UsesTool
                 /\ Result.tool_used = "read_csv"
                 /\ Result.tool_parameters = PyDict("filename" :> Detected)
        ELSE /\ Len(calls) = 1
             /\ UsesNoTool
             /\ Result.tool_result = None
             /\ Contains(Result.ai_response, "Please specify which file to read")

\* a read-family resolution that read the file named in the query
C8_ReadResolved ==
    /\ ReadQuery /\ UsesTool
    /\ Detected = "sales_data.csv"
    /\ Result.tool_parameters = PyDict("filename" :> "sales_data.csv")
    /\ Contains(Result.tool_result, "month sales")

\* a chart-family query whose listing step gave the available files and in
\* which a file is detected
ChartQuery ==
    /\ Resolved /\ Natural
    /\ ~AnyIn(ReadWords, QueryLower)
    /\ AnyIn(ChartWords, QueryLower)
    /\ ~ListedFiles.raised
    /\ Detected # None

\* the chart subtype C9 names: the first of pie, line, scatter that occurs
\* in the query, bar when none does
C9_Subtype ==
    IF \E t \in {"pie", "line", "scatter"} : Contains(QueryLower, t)
    THEN CHOOSE t \in {"pie", "line", "scatter"} :
            /\ Contains(QueryLower, t)
            /\ t = "line" => ~Contains(QueryLower, "pie")
            /\ t = "scatter" => ~Contains(QueryLower, "pie") /\ ~Contains(QueryLower, "line")
    ELSE "bar"

\* C9: for a chart-family query with a detected file the tool invoked is
\* generate_chart with data_source the detected file and chart_type the
\* subtype named in the query, and so says the result.
C9_ChartFamily ==
    ChartQuery =>
        /\ Len(calls) = 3
        /\ LastCall.tool = "generate_chart"
        /\ LastCall.args.d["data_source"] = Detected
        /\ LastCall.args.d["chart_type"] = C9_Subtype
        /\ ~LastCall.raised =>
            /\ UsesTool
            /\ Result.tool_used = "generate_chart"
            /\ Result.tool_parameters.d["data_source"] = Detected
            /\ Result.tool_parameters.d["chart_type"] = C9_Subtype

\* a chart resolution of a query naming two subtypes, resolved to pie
C9_PieOverLine ==
    /\ ChartQuery /\ UsesTool
    /\ Contains(QueryLower, "line") /\ Contains(QueryLower, "pie")
    /\ Result.tool_parameters.d["chart_type"] = "pie"

\* C10 as stated: a filter-family query with an extractable triple, such as
\* "filter where age > 30", and a detected file resolves to filter_data with
\* parameters column, operation, value and data_source.
C10_FilterFamily ==
    (/\ Resolved /\ Natural /\ Returns /\ Result.success
     /\ C7_Hits(QueryLower) = {6}
     /\ Contains(QueryLower, "filter where age > 30")
     /\ ~ListedFiles.raised
     /\ Detected # None) =>
        /\ UsesTool
        /\ Result.tool_used = "filter_data"
        /\ DOMAIN Result.tool_parameters.d = {"column", "operation", "value", "data_source"}

\* the families of the if/elif chain that have a keyword in the query
CodeHits(query_lower) == C7_Hits(query_lower) \cap (1..5)

C12_SigilBypass ==
    (/\ Resolved /\ Natural /\ Succeeds
     /\ StartsWith(request.user_query, "#list_data_files")) =>
        /\ Result.tool_used = "list_data_files"
        /\ Result.tool_parameters = PyDict(EmptyMap)

\* the words of the query that are available files, in the query's order
RECURSIVE C13_ExactTokens(_, _)
C13_ExactTokens(words, files) ==
    IF words = <<>> THEN <<>>
    ELSE (IF words[1] \in Range(files) THEN <<words[1]>> ELSE <<>>)
         \o C13_ExactTokens(Tail(words), files)

\* whether the normalized name of file, or one of its words, is a substring
\* of the lowercased query
C13_NameHit(file, query_lower) ==
    \/ Contains(query_lower, FileBase(file))
    \/ \E w \in Range(Split(FileBase(file))) : Contains(query_lower, w)

\* the file C13 names for a query and a listing
C13_Expected(query, files) ==
    IF C13_ExactTokens(Split(query), files) # <<>>
    THEN C13_ExactTokens(Split(query), files)[1]
    ELSE IF \E i \in DOMAIN files : C13_NameHit(files[i], Lower(query))
    THEN files[CHOOSE i \in DOMAIN files :
                 /\ C13_NameHit(files[i], Lower(query))
                 /\ \A j \in 1..(i - 1) : ~C13_NameHit(files[j], Lower(query))]
    ELSE None

\* the file a resolution worked on: the file parameter of the invocation
\* that follows the listing
C13_FileUsed ==
    IF calls[2].tool = "read_csv" THEN calls[2].args.d["filename"]
    ELSE calls[2].args.d["data_source"]

\* the resolution detected the expected file, and its read, chart, stats or
\* column branch worked on it or, when it is none, asked for a file
C13_WorksOn(expected) ==
    /\ Detected = expected
    /\ CodeHits(QueryLower) \cap (1..4) # {} =>
        IF expected = None
        THEN Len(calls) = 1 /\ UsesNoTool
        ELSE Len(calls) >= 2 /\ C13_FileUsed = expected

\* C13: the detected file is the available file that is an exact token of
\* the query when there is one, whatever the listing order; otherwise the
\* first file in listing order whose normalized name or one of its words is
\* a substring of the lowercased query; otherwise none.  The read, chart,
\* stats and column branches work on that file, and ask for one if none.
C13_FileDetection ==
    (Resolved /\ Natural /\ ~ListedFiles.raised) =>
        C13_WorksOn(C13_Expected(request.user_query, ListedFiles.value))

\* a resolution that worked on the file named by an exact token although an
\* earlier file of the listing matches by a word of its name
C13_ExactBeatsPattern ==
    /\ Resolved /\ Natural /\ UsesTool
    /\ CodeHits(QueryLower) \cap (1..4) # {}
    /\ dataDir = <<"sales_data.csv", "list.csv">>
    /\ C13_NameHit("sales_data.csv", QueryLower)
    /\ C13_FileUsed = "list.csv"

\* C14: two resolutions of the same query against the same files give the
\* same tool_used and the same tool_parameters (and succeed or fail alike),
\* whether or not the client was connected before and whatever the time.
C14_SameToolBothTimes ==
    (Resolved /\ Len(earlier) = 1) =>
        /\ Returns /\ ~earlier[1].raised
        /\ earlier[1].value.success = Result.success
        /\ Result.success =>
            /\ earlier[1].value.tool_used = Result.tool_used
            /\ earlier[1].value.tool_parameters = Result.tool_parameters

\* a chart query resolved twice, at different times: the charts differ, the
\* tool and its parameters do not
C14_ChartTwice ==
    /\ Resolved /\ Natural /\ Len(earlier) = 1 /\ UsesTool
    /\ Result.tool_used = "generate_chart"
    /\ earlier[1].value.tool_result # Result.tool_result

\* a reasoner call that has returned
Answered == phase \in {"answered", "dispatched"}
Asking == phase = "asking"
LastReply == http[Len(http)]

C16_RetryOnTimeoutOnly ==
    (Asking \/ Answered) =>
        /\ \A i \in 1..(Len(http) - 1) : http[i].kind = "Timeout"
        /\ Len(http) <= request.max_retries

\* every attempt made so far timed out, and there is one
AllTimedOut ==
    /\ http # <<>>
    /\ \A i \in 1..Len(http) : http[i].kind = "Timeout"

\* C17: when every attempt times out, the call goes on only while fewer than
\* max_retries attempts are made, and returns after max_retries attempts a
\* suggestion with tool null, empty parameters and an explanation that
\* reports the timeout.
C17_TimeoutsExhausted ==
    /\ (Asking /\ AllTimedOut) => Len(http) < request.max_retries
    /\ (Answered /\ AllTimedOut) =>
        /\ Len(http) = request.max_retries
        /\ sleeps = request.max_retries - 1
        /\ ~outcome.raised
        /\ outcome.value.d["tool"] = None
        /\ outcome.value.d["parameters"] = PyDict(EmptyMap)
        /\ Contains(outcome.value.d["explanation"],
                    "timed out after " \o RetriesText[request.max_retries] \o " attempts")

\* a call that returned after three timeouts
C17_ThreeTimeouts ==
    /\ Answered /\ AllTimedOut
    /\ Len(http) = 3

\* a reply with status 200 whose text has no JSON object: no '{', no '}',
\* or a span from the first '{' to the last '}' that does not parse
C18_Malformed(reply) ==
    /\ reply.kind = "response" /\ reply.status = 200 /\ reply.body = "content"
    /\ \/ ~Contains(reply.content, "{")
       \/ ~Contains(reply.content, "}")
       \/ SubSeq(reply.content, Find(reply.content, "{"), RFind(reply.content, "}"))
            \notin DOMAIN JsonDocuments

\* C18: a reply with status 200 and a text without a JSON object, or with a
\* span that does not parse, ends the reasoner call, which returns
\* {tool: null, parameters: {}, explanation: the raw text}; the caller then
\* executes no tool.
C18_MalformedReply ==
    \A i \in 1..Len(http) :
        C18_Malformed(http[i]) =>
            /\ i = Len(http)
            /\ Answered
            /\ ~outcome.raised
            /\ outcome.value = Suggestion(http[i].content)
            /\ phase = "dispatched" => calls = <<>>

\* the loop has acted on a reply whose braces enclose no JSON
C18_UnparsedSpanDispatched ==
    /\ phase = "dispatched" /\ http # <<>>
    /\ C18_Malformed(LastReply)
    /\ Contains(LastReply.content, "{") /\ Contains(LastReply.content, "}")
    /\ calls = <<>>

\* C19: no exception escapes a reasoner call, whatever the replies and
\* max_retries: process_query returns a value, a suggestion or None.
C19_ReasonerNeverRaises ==
    Answered =>
        /\ ~outcome.raised
        /\ outcome.value.t \in {"dict", "none"}

\* a call whose last attempt met a reply whose content is no text, and which
\* returned the error as a suggestion
C19_ErrorReturned ==
    /\ Answered /\ Len(http) = 3
    /\ LastReply.kind = "response" /\ LastReply.body = "content is null"
    /\ Contains(outcome.value.d["explanation"], "Error processing query")

\* C20 as stated: the router consults the reasoner for a query when the
\* heuristics find no match, and never when they found a tool or an
\* explicit tool was given.
C20_ReasonerConsultedOnNoMatch ==
    (Resolved /\ Succeeds) =>
        IF Natural /\ C7_Hits(QueryLower) = {}
        THEN http # <<>>
        ELSE http = <<>>

\* C21: when an explicit tool name of the catalog is given, the resolution
\* makes exactly one invocation, of that tool with the caller's parameters,
\* whatever the query text: no listing, no file detection and no keyword
\* classification; when the invocation returns, the result names that tool,
\* those parameters and the invocation's value.
C21_ExplicitToolInvoked ==
    (Resolved /\ Explicit /\ request.tool_name \in Range(direct_functions)) =>
        /\ Len(calls) = 1
        /\ calls[1].tool = request.tool_name
        /\ calls[1].args = request.tool_params
        /\ Returns /\ Result.success
        /\ ~calls[1].raised =>
            /\ Result.tool_used = request.tool_name
            /\ Result.tool_parameters = request.tool_params
            /\ Result.ai_response = "Executed " \o request.tool_name \o " successfully."

\* an explicit read_csv of one file along with a query text that asks to
\* show another: the file of the parameters is the one read
C21_QueryTextIgnored ==
    /\ Resolved /\ Explicit /\ UsesTool
    /\ request.user_query = "show sales_data.csv"
    /\ request.tool_name = "read_csv"
    /\ request.tool_params = PyDict("filename" :> "gone.csv")
    /\ Result.tool_result = "File gone.csv not found in data directory"

\* the result of the request when it is the first the process resolves: the
\* client is not connected yet
FirstResult ==
    process_query_sync(Env(FALSE, importable, dataDir, None), request.user_query,
                       request.tool_name, request.tool_params).value

\* the two results succeed or fail alike, with the same tool_used,
\* tool_parameters and explanation, or the same error text
C22_SameOutcome(result, first) ==
    /\ result.success = first.success
    /\ result.success =>
        /\ result.tool_used = first.tool_used
        /\ result.tool_parameters = first.tool_parameters
        /\ result.ai_response = first.ai_response
    /\ ~result.success => result.error = first.error

\* C22: a resolution gives what the same request gives when it is resolved
\* first, whatever was resolved before it against the same data directory:
\* both succeed or both fail, with the same tool_used, tool_parameters and
\* explanation (the same error text when they fail).  Of the model's state
\* only the client's connected flag outlives a query, besides the
\* environment.
C22_IndependentOfEarlierQueries ==
    Resolved => Returns /\ C22_SameOutcome(Result, FirstResult)

\* a chart query resolved after a read query by a client that the read query
\* left connected
C22_ChartAfterRead ==
    /\ Resolved /\ UsesTool /\ connected
    /\ DOMAIN request # DOMAIN NoRequest
    /\ request.after = "Display list.csv"
    /\ Result.tool_used = "generate_chart"

\* C23 as stated: any two successful chart generations, one after the other
\* or from concurrent requests, save to different paths of the output
\* directory, so that none overwrites the chart of another.
C23_ChartPathsDiffer ==
    \A i, j \in DOMAIN written : i # j => written[i] # written[j]

\* a known tool is given parameters that bind and name a data file that does
\* not exist
C24_MissingFile ==
    /\ request.tool_name \in Range(direct_functions)
    /\ Binds(request.tool_name, request.tool_params)
    /\ \E k \in {"filename", "data_source"} \cap DOMAIN request.tool_params.d :
        ~FileExists(dataDir, request.tool_params.d[k])

\* C24 as stated: a known tool invoked with well-formed parameters that hits
\* a runtime fault, here a data file that does not exist, is reported by the
\* executor as a failure classified as an execution failure, and the router
\* does not report that the tool executed successfully.
C24_RuntimeFaultIsFailure ==
    /\ (Invoked /\ Served /\ C24_MissingFile) =>
        \/ outcome.raised
        \/ StartsWith(outcome.value, "Error executing tool " \o request.tool_name)
    /\ (Resolved /\ Explicit /\ C24_MissingFile /\ Succeeds) =>
        /\ Result.tool_used = None
        /\ Result.ai_response # "Executed " \o request.tool_name \o " successfully."

\* the number of characters ch of the content from position a to position b
C25_Count(content, ch, a, b) ==
    Cardinality({ k \in a..b : CharAt(content, k) = ch })

\* whether as many '}' as '{' occur from position a to position b
C25_Balanced(content, a, b) ==
    C25_Count(content, "{", a, b) = C25_Count(content, "}", a, b)

\* the position of the '}' that closes the '{' at position start: the first
\* position up to which the braces are balanced; 0 when there is none
C25_BalancedEnd(content, start) ==
    IF \E j \in start..Len(content) : C25_Balanced(content, start, j)
    THEN CHOOSE j \in start..Len(content) :
            /\ C25_Balanced(content, start, j)
            /\ \A k \in start..(j - 1) : ~C25_Balanced(content, start, k)
    ELSE 0

\* the first balanced {...} span of the content, "" when there is none
C25_FirstSpan(content) ==
    IF Find(content, "{") = 0 THEN ""
    ELSE SubSeq(content, Find(content, "{"),
                C25_BalancedEnd(content, Find(content, "{")))

\* C25 as stated: from a reply with status 200 the reasoner parses the first
\* balanced {...} span, so that for a text with a well-formed JSON object
\* followed by further text with braces the suggestion is that first object.
C25_FirstBalancedSpan ==
    \A i \in 1..Len(http) :
        (/\ http[i].kind = "response" /\ http[i].status = 200
         /\ http[i].body = "content"
         /\ C25_FirstSpan(http[i].content) \in DOMAIN JsonDocuments) =>
            /\ i = Len(http)
            /\ Answered
            /\ outcome.value = JsonDocuments[C25_FirstSpan(http[i].content)]

\* the output of the header read of the chart branch
C26_HeaderText == read_csv(dataDir, Detected)

\* the header read failed: the call raised, or the read tool reported a
\* missing or unreadable file as text, or the output is empty
C26_HeaderReadFailed ==
    \/ calls[2].raised
    \/ C26_HeaderText = ""
    \/ StartsWith(C26_HeaderText, "File " \o Detected \o " not found")
    \/ StartsWith(C26_HeaderText, "Error reading CSV file")

\* C26 as stated: in the chart branch generate_chart is invoked with x_axis
\* and y_axis the first and the second column of the detected file's header
\* (y_axis = x_axis for a file of one column), and with 'x' and 'y' whenever
\* the header read failed in any way.
C26_ChartAxes ==
    ChartQuery =>
        /\ Len(calls) = 3
        /\ calls[2].tool = "read_csv"
        /\ calls[3].tool = "generate_chart"
        /\ calls[3].args.d["x_axis"] =
             (IF C26_HeaderReadFailed THEN "x" ELSE Columns[Detected][1])
        /\ calls[3].args.d["y_axis"] =
             (IF C26_HeaderReadFailed THEN "y"
              ELSE IF Len(Columns[Detected]) > 1 THEN Columns[Detected][2]
              ELSE Columns[Detected][1])

\* C27 as stated: a result that names a tool has as tool_parameters exactly
\* the mapping that tool was invoked with and as tool_result the value the
\* invocation returned; a result with tool_used null has tool_result null.
C27_ResultReportsInvocation ==
    /\ (Resolved /\ UsesTool) =>
        /\ LastCall.tool = Result.tool_used
        /\ Result.tool_parameters = LastCall.args
        /\ Result.tool_result = LastCall.value
    /\ (Resolved /\ UsesNoTool) => Result.tool_result = None

\* the mapping restricted to data_source and chart_type
C27_ChartSummary(args) ==
    PyDict([k \in {"data_source", "chart_type"} |-> args.d[k]])

\* C27 (amended): a result that names a tool names the tool of the
\* resolution's last invocation, which returned, and has the value it
\* returned as tool_result; its tool_parameters is the mapping the tool was
\* invoked with, except in the chart branch, where generate_chart is invoked
\* with data_source, chart_type, title, x_axis and y_axis and tool_parameters
\* holds data_source and chart_type only.  A result with tool_used null has
\* tool_result null and tool_parameters null.
C27_ResultReportsLastInvocation ==
    /\ (Resolved /\ UsesTool) =>
        /\ LastCall.tool = Result.tool_used
        /\ ~LastCall.raised
        /\ Result.tool_result = LastCall.value
        /\ IF Natural /\ Result.tool_used = "generate_chart"
           THEN /\ DOMAIN LastCall.args.d =
                     {"data_source", "chart_type", "title", "x_axis", "y_axis"}
                /\ Result.tool_parameters = C27_ChartSummary(LastCall.args)
           ELSE Result.tool_parameters = LastCall.args
    /\ (Resolved /\ UsesNoTool) =>
        /\ Result.tool_result = None
        /\ Result.tool_parameters = PyNone

\* a chart was saved with the axes of the file's header, and the result
\* reports data_source and chart_type
C27_ChartReported ==
    /\ Resolved /\ Natural /\ UsesTool
    /\ Result.tool_used = "generate_chart"
    /\ LastCall.args.d["x_axis"] = "month" /\ LastCall.args.d["y_axis"] = "sales"
    /\ DOMAIN Result.tool_parameters.d = {"data_source", "chart_type"}
    /\ StartsWith(Result.tool_result, "Chart saved as ")

\* what an execute_tool outcome reports: the tool's output or a failure of
\* some kind
C28_DirectKind(d) ==
    IF StartsWith(d.value, "Unknown tool: ") THEN "unknown tool"
    ELSE IF StartsWith(d.value, "Parameter error for ") THEN "parameter mismatch"
    ELSE IF StartsWith(d.value, "Error executing tool ") THEN "execution failure"
    ELSE "output"

\* what a call_tool outcome reports
C28_McpKind(c) ==
    IF ~c.raised THEN "output"
    ELSE IF Contains(c.value, " not found. Available tools: ") THEN "unknown tool"
    ELSE IF Contains(c.value, "() ") THEN "parameter mismatch"
    ELSE "execution failure"

\* the two outcomes are the same output or failures of the same kind
C28_Agree(d, c) ==
    /\ C28_DirectKind(d) = C28_McpKind(c)
    /\ C28_DirectKind(d) = "output" => d.value = c.value

\* C28 as stated: for every tool name, every parameter mapping and the same
\* data and scripts directories, DirectClient.execute_tool and
\* MCPClient.call_tool (both with their tools at hand) give the same output
\* text or report a failure of the same kind.
C28_ExecutorsInterchangeable ==
    (phase = "executed" /\ Served) =>
        \A now \in Timestamps :
            C28_Agree(outcome, call_tool(Env(TRUE, TRUE, dataDir, now),
                                         request.tool_name, request.tool_params))

\* C29 as stated: what a reasoner call with max_retries >= 1 returns is a
\* mapping with the fields tool, parameters and explanation, tool null or a
\* text and parameters a mapping, also when the reply has a JSON object that
\* parses; the call never returns no value.
C29_SuggestionWellFormed ==
    (Answered /\ request.max_retries >= 1) =>
        /\ ~outcome.raised
        /\ outcome.value.t = "dict"
        /\ {"tool", "parameters", "explanation"} \subseteq DOMAIN outcome.value.d
        /\ outcome.value.d["parameters"].t = "dict"

\* run_cli is in the default mode: none of --list-tools, --tool, --query and
\* --interactive is given
C30_DefaultMode ==
    /\ phase = "cli"
    /\ ~cli.args.list_tools /\ ~cli.args.tool
    /\ ~cli.args.query /\ ~cli.args.interactive

\* C30 as stated: on every path of run_cli that starts a reasoner session
\* (single query, --interactive, and the default mode) the port is set by
\* check_ollama or start_ollama before it is used, so that the start never
\* fails on it, and the default mode starts the interactive session.
C30_PortSetBeforeSession ==
    /\ (phase = "cli" /\ cli.at = "starting") => cli.port # Unbound
    /\ phase = "cli" => cli.at # "crashed"
    /\ (C30_DefaultMode /\ cli.at \in {"returned", "session", "crashed"}) =>
        cli.session \in {"interactive", "fallback"}

====
